---- MODULE Spec2Model ----
(***************************************************************************)
(* Model of protocols/ASVspoof2019-LA.py: the script that turns the three  *)
(* ASVspoof2019-LA protocol files plus the FLAC directory into one CSV.    *)
(*                                                                         *)
(* Representation.  A Python string is a sequence of tokens; a token is a  *)
(* single character or a fixed word of the script ("./dataset", "flac",    *)
(* ...).  str + str is \o, '' is << >>.  Durations are kept in hundredths  *)
(* of a second (round(x, 2) has two decimals), so 2.0 is 200 and the       *)
(* sentinel -1 is -100.  A DataFrame row / dict is a function from column  *)
(* names to values.                                                        *)
(***************************************************************************)
EXTENDS Integers, Sequences, FiniteSets, TLC

(***************************************************************************)
(* Bounds of the model.                                                    *)
(***************************************************************************)
\* longest protocol file, in lines (whole-run specification)
MaxRows == 2
\* longest utterance ID, in tokens (per-row specification)
MaxIdLen == 4
\* largest frame count of the enumerated headers (besides the 32000 example)
MaxFrames == 8

(***************************************************************************)
(* Module-level constants of the script.                                   *)
(***************************************************************************)
root_folder == <<"./dataset">>
dataset_name == <<"ASVspoof2019_LA">>
ID_PREFIX == <<"ASV19LA-">>
ROOT_TOKEN == <<"$ROOT/">>
protocol_files == <<"train.trn", "dev.trl", "eval.trl">>

(***************************************************************************)
(* String helpers: os.path.join, the `in` operator, str.replace.           *)
(***************************************************************************)
\* os.path.join(a, b): an absolute b discards a; otherwise one separator
\* is put between them unless a is empty or already ends with one.
path_join2(a, b) ==
  IF b # << >> /\ b[1] = "/" THEN b
  ELSE IF a = << >> \/ a[Len(a)] = "/" THEN a \o b
  ELSE a \o <<"/">> \o b

RECURSIVE path_join(_)
path_join(parts) ==
  IF Len(parts) = 1 THEN parts[1]
  ELSE path_join(<<path_join2(parts[1], parts[2])>> \o SubSeq(parts, 3, Len(parts)))

\* sub in s
str_contains(sub, s) ==
  \E i \in 1..(Len(s) - Len(sub) + 1) : SubSeq(s, i, i + Len(sub) - 1) = sub

\* s.replace(old, new): every non-overlapping occurrence, left to right
RECURSIVE str_replace(_, _, _)
str_replace(s, old, new) ==
  IF Len(s) < Len(old) THEN s
  ELSE IF SubSeq(s, 1, Len(old)) = old
       THEN new \o str_replace(SubSeq(s, Len(old) + 1, Len(s)), old, new)
       ELSE <<s[1]>> \o str_replace(Tail(s), old, new)

data_folder == path_join(<<root_folder, dataset_name>>)

(***************************************************************************)
(* read_protocol: the Label converter and the column names.                *)
(***************************************************************************)
\* the converter comparing without regard to case
converter_label_CaseFold(x) == IF x \in {"bonafide", "Bonafide"} THEN "real" ELSE "fake"

\* converter_label = lambda x: 'real' if x == 'bonafide' else 'fake'
converter_label(x) == IF x = "bonafide" THEN "real" ELSE "fake"

names == <<"Speaker", "ID", "UN", "Attack", "Label">>

\* one parsed line: field k goes to column names[k], the Label field
\* through the converter
parse_line(line) ==
  [c \in {names[k] : k \in DOMAIN names} |->
     LET k == CHOOSE j \in DOMAIN names : names[j] = c
     IN  IF c = "Label" THEN converter_label(line[k]) ELSE line[k]]

(***************************************************************************)
(* __get_audio_meta: the per-row enrichment.                               *)
(***************************************************************************)
T_ == <<"T", "_">>
D_ == <<"D", "_">>

\* the subset directory chosen from the raw ID
subset(id) ==
  IF str_contains(T_, id) THEN <<"ASVspoof2019_LA_train">>
  ELSE IF str_contains(D_, id) THEN <<"ASVspoof2019_LA_dev">>
  ELSE <<"ASVspoof2019_LA_eval">>

\* the same rule with the two tests in the other order
subset_id_DFirst(id) ==
  IF str_contains(D_, id) THEN "valid"
  ELSE IF str_contains(T_, id) THEN "train"
  ELSE "test"

\* the value stored in Proportion
subset_id(id) ==
  IF str_contains(T_, id) THEN "train"
  ELSE IF str_contains(D_, id) THEN "valid"
  ELSE "test"

\* os.path.join(data_folder, subset, "flac", f"{row['ID']}.flac")
file_path_of(id) ==
  path_join(<<data_folder, subset(id), <<"flac">>, id \o <<".flac">>>>)

\* file_path.replace(root_folder, "$ROOT/")
filepath_of(file_path) == str_replace(file_path, root_folder, ROOT_TOKEN)

RECURSIVE GCD(_, _)
GCD(a, b) == IF b = 0 THEN a ELSE GCD(b, a % b)

RECURSIVE IsPow2(_)
IsPow2(n) == IF n = 1 THEN TRUE ELSE IF n % 2 = 1 THEN FALSE ELSE IsPow2(n \div 2)

\* num_frames / sample_rate lies exactly half way between two hundredths
IsTie(num_frames, sample_rate) == (200 * num_frames) % (2 * sample_rate) = sample_rate

\* num_frames / sample_rate is a binary fraction, so the float quotient is exact
IsDyadic(num_frames, sample_rate) == IsPow2(sample_rate \div GCD(num_frames, sample_rate))

\* the quotient cut to two decimals instead of rounded
round2_Trunc(num_frames, sample_rate) == (100 * num_frames) \div sample_rate

\* round(num_frames / sample_rate, 2), in hundredths.  Python rounds the
\* float quotient to the nearest hundredth and an exact tie to the even
\* one; the headers enumerated below have a tie only where the quotient is
\* exact in binary, so the float's tie is the mathematical one.
round2(num_frames, sample_rate) ==
  LET q == (100 * num_frames) \div sample_rate
      r == (100 * num_frames) % sample_rate
  IN  IF 2 * r < sample_rate THEN q
      ELSE IF 2 * r > sample_rate THEN q + 1
      ELSE IF q % 2 = 0 THEN q ELSE q + 1

\* what os.path.exists / torchaudio.info answer for one file:
\* kind "absent" (no file), "fail" (info raises), "ok" (a header)
NoHeader(k) ==
  [kind |-> k, sample_rate |-> 0, num_channels |-> 0, num_frames |-> 0,
   encoding |-> "", bits_per_sample |-> 0]

Header(sr, ch, fr) ==
  [kind |-> "ok", sample_rate |-> sr, num_channels |-> ch, num_frames |-> fr,
   encoding |-> "FLAC", bits_per_sample |-> 16]

AllColumns ==
  {"Speaker", "ID", "UN", "Attack", "Label", "Duration", "SampleRate", "Path",
   "Proportion", "AudioChannel", "AudioEncoding", "AudioBitSample", "Language"}

\* One call of __get_audio_meta on a parsed row, given what the file system
\* and the probe answer for its file.  The result is the returned row, or
\* the exception the call raises.  `lang` is assigned only on the branch
\* where the file exists; reading it unbound raises UnboundLocalError.
get_audio_meta(row, probe) ==
  LET id        == row["ID"]
      sid       == subset_id(id)
      file_path == file_path_of(id)
      file_id   == ID_PREFIX \o id
      exists    == probe.kind # "absent"
      duration     == IF exists THEN round2(probe.num_frames, probe.sample_rate) ELSE -100
      sample_rate  == IF exists THEN probe.sample_rate ELSE -1
      filepath     == IF exists THEN filepath_of(file_path) ELSE << >>
      encoding     == IF exists THEN probe.encoding ELSE ""
      bitpersample == IF exists THEN probe.bits_per_sample ELSE -1
      num_channels == IF exists THEN probe.num_channels ELSE -1
      lang_bound   == exists
      out == [c \in AllColumns |->
                CASE c = "ID"             -> file_id
                  [] c = "Duration"       -> duration
                  [] c = "SampleRate"     -> sample_rate
                  [] c = "Path"           -> filepath
                  [] c = "Proportion"     -> sid
                  [] c = "AudioChannel"   -> num_channels
                  [] c = "AudioEncoding"  -> encoding
                  [] c = "AudioBitSample" -> bitpersample
                  [] c = "Language"       -> "EN"
                  [] OTHER                -> row[c]]
  IN  IF probe.kind = "fail" THEN [raised |-> "ProbeError", row |-> row]
      ELSE IF ~lang_bound THEN [raised |-> "UnboundLocalError", row |-> row]
      ELSE [raised |-> "", row |-> out]

\* metadata.drop(columns=['UN'], errors='ignore') then to_dict("records")
drop_UN(row) == [c \in (DOMAIN row) \ {"UN"} |-> row[c]]

(***************************************************************************)
(* write_csv                                                               *)
(***************************************************************************)
header ==
  <<"ID", "Label", "Duration", "SampleRate", "Path", "Attack", "Speaker",
    "Proportion", "AudioChannel", "AudioEncoding", "AudioBitSample", "Language">>

Range(s) == {s[i] : i \in DOMAIN s}

\* the columns of pd.DataFrame(list of dicts): the keys of the dicts, none
\* for an empty list
frame_columns(records) ==
  IF records = << >> THEN {} ELSE DOMAIN records[1]

\* metadata[header]: the rows restricted to the header's columns
select_header(records) ==
  [k \in DOMAIN records |-> [c \in Range(header) |-> records[k][c]]]

(***************************************************************************)
(* The inputs: what the protocol files hold and what the audio files are.  *)
(***************************************************************************)
RECURSIVE SeqsUpTo(_, _)
\* the non-empty sequences over S of length at most n
SeqsUpTo(S, n) ==
  IF n = 0 THEN {}
  ELSE LET shorter == SeqsUpTo(S, n - 1)
       IN  {<<x>> : x \in S} \cup shorter \cup {s \o <<x>> : s \in shorter, x \in S}

\* the docstring's example line: LA_0069 LA_D_1047731 - - bonafide
ExampleID == <<"L", "A", "_", "D", "_", "1047731">>

IdAlphabet == {"T", "D", "_", "./dataset"}

\* utterance IDs of the per-row runs
RowIDs ==
  SeqsUpTo(IdAlphabet, MaxIdLen)
    \cup {ExampleID, <<"L", "A", "_", "t", "_", "1">>, <<"L", "A", "_", "d", "_", "1">>}

RawLabels == {"bonafide", "spoof", "Bonafide"}

\* a protocol line: speaker, utterance ID, unused field, attack, raw label
RowLines == {<<"LA_0069", id, "-", "-", lab>> : id \in RowIDs, lab \in RawLabels}

RunLines ==
  { <<"LA_0079", <<"L", "A", "_", "T", "_", "1">>, "-", "-", "bonafide">>,
    <<"LA_0069", <<"L", "A", "_", "D", "_", "2">>, "-", "A01", "spoof">>,
    <<"LA_0001", <<"L", "A", "_", "E", "_", "3">>, "-", "A07", "bonafide">> }

\* headers the probe may return
RowHeaders ==
  {Header(sr, ch, fr) : sr \in {8, 16000}, ch \in {1, 2}, fr \in (0..MaxFrames) \cup {32000}}

RowProbes ==
  {NoHeader("absent"), NoHeader("fail")}
    \cup {h \in RowHeaders :
            IsTie(h.num_frames, h.sample_rate) => IsDyadic(h.num_frames, h.sample_rate)}

RunProbes == {NoHeader("absent"), NoHeader("fail"), Header(16000, 1, 32000)}

(***************************************************************************)
(* The run: the main script as a state machine.                            *)
(***************************************************************************)
VARIABLES
  pc,                \* position of the main script
  err,               \* the exception that ended the run, "" if none
  fileIdx,           \* index into protocol_files of the loop
  lines_in,          \* per protocol file: what the run found on disk
  protocol_data,     \* rows returned by read_protocol for the current file
  probes,            \* per row of the current file: the path probed and the answer
  results,           \* per row of the current file: the enriched row
  combined_metadata, \* the accumulated records
  csv,               \* the output file
  writes             \* number of times the output file was written

vars ==
  <<pc, err, fileIdx, lines_in, protocol_data, probes, results,
    combined_metadata, csv, writes>>

NoCsv == [written |-> FALSE, header |-> << >>, rows |-> << >>]

Unread == [state |-> "unread", lines |-> << >>]

Init ==
  /\ pc = "loop"
  /\ err = ""
  /\ fileIdx = 1
  /\ lines_in = [f \in 1..Len(protocol_files) |-> Unread]
  /\ protocol_data = << >>
  /\ probes = << >>
  /\ results = << >>
  /\ combined_metadata = << >>
  /\ csv = NoCsv
  /\ writes = 0

\* `if not os.path.exists(protocol_file): ... continue`
SkipProtocol(absentFiles) ==
  /\ pc = "loop"
  /\ fileIdx <= Len(protocol_files)
  /\ fileIdx \in absentFiles
  /\ lines_in' = [lines_in EXCEPT ![fileIdx] = [state |-> "absent", lines |-> << >>]]
  /\ fileIdx' = fileIdx + 1
  /\ UNCHANGED <<pc, err, protocol_data, probes, results, combined_metadata, csv, writes>>

\* read_protocol on an existing, well-formed file of at least one line
\* (what pandas and pandarallel do with an empty file is outside the script)
ReadProtocol(presentFiles, Lines, maxRows) ==
  /\ pc = "loop"
  /\ fileIdx <= Len(protocol_files)
  /\ fileIdx \in presentFiles
  /\ \E content \in SeqsUpTo(Lines, maxRows) :
       /\ lines_in' = [lines_in EXCEPT ![fileIdx] = [state |-> "present", lines |-> content]]
       /\ protocol_data' = [k \in DOMAIN content |-> parse_line(content[k])]
  /\ probes' = << >>
  /\ results' = << >>
  /\ pc' = "enrich"
  /\ UNCHANGED <<err, fileIdx, combined_metadata, csv, writes>>

\* read_protocol on an existing file pandas cannot parse: the error propagates
ReadProtocolFails(presentFiles) ==
  /\ pc = "loop"
  /\ fileIdx <= Len(protocol_files)
  /\ fileIdx \in presentFiles
  /\ lines_in' = [lines_in EXCEPT ![fileIdx] = [state |-> "malformed", lines |-> << >>]]
  /\ pc' = "error"
  /\ err' = "ParserError"
  /\ UNCHANGED <<fileIdx, protocol_data, probes, results, combined_metadata, csv, writes>>

\* a worker that files its result at the next free position
EnrichRow_ByCompletion(Probes) ==
  /\ pc = "enrich"
  /\ \E i \in (DOMAIN protocol_data) \ (DOMAIN probes) :
     \E probe \in Probes :
       LET res == get_audio_meta(protocol_data[i], probe)
           slot == Cardinality(DOMAIN results) + 1
       IN  /\ probes' = probes @@ (i :> [path |-> file_path_of(protocol_data[i]["ID"]),
                                         answer |-> probe])
           /\ IF res.raised # ""
              THEN /\ pc' = "error"
                   /\ err' = res.raised
                   /\ UNCHANGED results
              ELSE /\ results' = results @@ (slot :> res.row)
                   /\ UNCHANGED <<pc, err>>
  /\ UNCHANGED <<fileIdx, lines_in, protocol_data, combined_metadata, csv, writes>>

\* metadata.parallel_apply(__get_audio_meta, axis=1): the rows are enriched
\* by the workers in any order; each result is filed under its row's index.
\* An exception in a worker ends the run.
EnrichRow(Probes) ==
  /\ pc = "enrich"
  /\ \E i \in (DOMAIN protocol_data) \ (DOMAIN probes) :
     \E probe \in Probes :
       LET res == get_audio_meta(protocol_data[i], probe)
       IN  /\ probes' = probes @@ (i :> [path |-> file_path_of(protocol_data[i]["ID"]),
                                         answer |-> probe])
           /\ IF res.raised # ""
              THEN /\ pc' = "error"
                   /\ err' = res.raised
                   /\ UNCHANGED results
              ELSE /\ results' = results @@ (i :> res.row)
                   /\ UNCHANGED <<pc, err>>
  /\ UNCHANGED <<fileIdx, lines_in, protocol_data, combined_metadata, csv, writes>>

\* the accumulated records written out after every protocol file
ExtendCombined_WriteEach ==
  /\ pc = "enrich"
  /\ DOMAIN results = DOMAIN protocol_data
  /\ combined_metadata' =
       combined_metadata \o [k \in DOMAIN protocol_data |-> drop_UN(results[k])]
  /\ csv' = [written |-> TRUE, header |-> header,
             rows |-> select_header(combined_metadata')]
  /\ writes' = writes + 1
  /\ fileIdx' = fileIdx + 1
  /\ pc' = "loop"
  /\ UNCHANGED <<err, lines_in, protocol_data, probes, results>>

\* parallel_apply returns the frame in row order; drop 'UN'; extend the list
ExtendCombined ==
  /\ pc = "enrich"
  /\ DOMAIN results = DOMAIN protocol_data
  /\ combined_metadata' =
       combined_metadata \o [k \in DOMAIN protocol_data |-> drop_UN(results[k])]
  /\ fileIdx' = fileIdx + 1
  /\ pc' = "loop"
  /\ UNCHANGED <<err, lines_in, protocol_data, probes, results, csv, writes>>

\* write_csv(combined_metadata) after the loop: selecting the header's
\* columns from a frame that lacks them raises KeyError before to_csv
WriteCsv ==
  /\ pc = "loop"
  /\ fileIdx > Len(protocol_files)
  /\ IF Range(header) \subseteq frame_columns(combined_metadata)
     THEN /\ csv' = [written |-> TRUE, header |-> header,
                     rows |-> select_header(combined_metadata)]
          /\ writes' = writes + 1
          /\ pc' = "done"
          /\ UNCHANGED err
     ELSE /\ pc' = "error"
          /\ err' = "KeyError"
          /\ UNCHANGED <<csv, writes>>
  /\ UNCHANGED <<fileIdx, lines_in, protocol_data, probes, results, combined_metadata>>

AllFiles == 1..Len(protocol_files)

Next ==
  \/ SkipProtocol(AllFiles)
  \/ ReadProtocol(AllFiles, RunLines, MaxRows)
  \/ ReadProtocolFails(AllFiles)
  \/ EnrichRow(RunProbes)
  \/ ExtendCombined
  \/ WriteCsv

Spec == Init /\ [][Next]_vars

\* Runs over one line: only the dev protocol exists and it holds one line,
\* drawn from the large sets of IDs, labels and headers.
NextRow ==
  \/ SkipProtocol({1, 3})
  \/ ReadProtocol({2}, RowLines, 1)
  \/ ReadProtocolFails({2})
  \/ EnrichRow(RowProbes)
  \/ ExtendCombined
  \/ WriteCsv

SpecRow == Init /\ [][NextRow]_vars

(***************************************************************************)
(* Properties.                                                             *)
(***************************************************************************)
\* the lines of the protocol files read so far, in the order of the files
RECURSIVE LinesUpTo(_)
LinesUpTo(f) == IF f = 0 THEN << >> ELSE LinesUpTo(f - 1) \o lines_in[f].lines

InputLines == LinesUpTo(Len(protocol_files))

\* the raw lines of the protocol file read last, the one protocol_data,
\* probes and results belong to
CurrentLines ==
  LET read == {f \in AllFiles : lines_in[f].state = "present"}
  IN  IF read = {} THEN << >>
      ELSE lines_in[CHOOSE f \in read : \A g \in read : g <= f].lines

Terminated == pc \in {"done", "error"}

\* a occurs in s immediately followed by b
HasPair(s, a, b) == \E k \in 1..(Len(s) - 1) : s[k] = a /\ s[k + 1] = b

ProportionRule(id, proportion) ==
  /\ proportion \in {"train", "valid", "test"}
  /\ proportion = "train" <=> HasPair(id, "T", "_")
  /\ proportion = "valid" <=> (~HasPair(id, "T", "_") /\ HasPair(id, "D", "_"))

SubsetDirOf(proportion) ==
  CASE proportion = "train" -> "ASVspoof2019_LA_train"
    [] proportion = "valid" -> "ASVspoof2019_LA_dev"
    [] OTHER                -> "ASVspoof2019_LA_eval"

\* C1: a row whose audio file is absent is enriched without a fatal error
\* and is emitted with Duration=-1, SampleRate=-1, AudioChannel=-1,
\* AudioEncoding="", AudioBitSample=-1 and Path=""; the run is not aborted.
C1_MissingAudioKeepsRow ==
  \A i \in DOMAIN probes :
    probes[i].answer.kind = "absent" =>
      /\ pc # "error"
      /\ i \in DOMAIN results
      /\ results[i]["Duration"] = -100
      /\ results[i]["SampleRate"] = -1
      /\ results[i]["AudioChannel"] = -1
      /\ results[i]["AudioEncoding"] = ""
      /\ results[i]["AudioBitSample"] = -1
      /\ results[i]["Path"] = << >>

\* C2: whatever subset of the protocol files is missing (one, two or all
\* three), a run in which nothing else goes wrong completes and writes the
\* CSV, the missing files contributing no rows.
C2_MissingProtocolsNeverAbort ==
  (/\ Terminated
   /\ \A f \in AllFiles : lines_in[f].state \in {"absent", "present"}
   /\ err \notin {"ProbeError", "UnboundLocalError"})
  => /\ pc = "done"
     /\ csv.written
     /\ Len(csv.rows) = Len(InputLines)

\* C3: every existing protocol file contributes as many CSV rows as it has
\* lines, whatever mix of its audio files is present or absent; the CSV has
\* as many data rows as the existing protocol files have lines.
C3_RowCountPreserved ==
  (/\ Terminated
   /\ \E f \in AllFiles : lines_in[f].state = "present"
   /\ err \notin {"ParserError", "ProbeError"})
  => /\ csv.written
     /\ Len(csv.rows) = Len(InputLines)

\* C4: Proportion of every enriched and every written row is one of train,
\* valid, test and depends on the raw utterance ID alone: train if the ID
\* contains "T_", otherwise valid if it contains "D_", otherwise test; the
\* subset directory of the probed path follows the same rule.
C4_ProportionFromID ==
  /\ \A i \in DOMAIN results :
       /\ ProportionRule(CurrentLines[i][2], results[i]["Proportion"])
       /\ \E k \in DOMAIN probes[i].path :
            probes[i].path[k] = SubsetDirOf(results[i]["Proportion"])
  /\ csv.written =>
       \A k \in DOMAIN csv.rows :
         ProportionRule(InputLines[k][2], csv.rows[k]["Proportion"])

C4_Witness ==
  /\ csv.written
  /\ Len(csv.rows) = 1
  /\ InputLines[1][2] = <<"D", "_", "T", "_">>
  /\ csv.rows[1]["Proportion"] = "train"

\* C5: for a row whose audio file exists, Path is the probed file path with
\* only its leading data-root prefix replaced by "$ROOT/", the rest of the
\* path carried over unchanged.
C5_OnlyLeadingRootReplaced ==
  \A i \in DOMAIN results :
    LET p == probes[i].path
    IN  /\ SubSeq(p, 1, Len(root_folder)) = root_folder
        /\ results[i]["Path"] = ROOT_TOKEN \o SubSeq(p, Len(root_folder) + 1, Len(p))

\* C6: Label of every row is real or fake, real exactly when the raw label
\* of its protocol line is the string "bonafide"; enrichment and writing
\* keep the Label the reader produced.
C6_LabelFromRawLabel ==
  /\ \A i \in DOMAIN protocol_data :
       /\ protocol_data[i]["Label"] \in {"real", "fake"}
       /\ protocol_data[i]["Label"] = "real" <=> CurrentLines[i][5] = "bonafide"
  /\ \A i \in DOMAIN results : results[i]["Label"] = protocol_data[i]["Label"]
  /\ csv.written =>
       \A k \in DOMAIN csv.rows :
         /\ csv.rows[k]["Label"] \in {"real", "fake"}
         /\ csv.rows[k]["Label"] = "real" <=> InputLines[k][5] = "bonafide"

C6_Witness ==
  /\ csv.written
  /\ Len(csv.rows) = 1
  /\ InputLines[1][5] = "Bonafide"
  /\ csv.rows[1]["Label"] = "fake"

\* C7: whenever the run reaches the CSV writer, however many records have
\* been accumulated, the output file's header is the twelve columns ID ..
\* Language in that order, without 'UN'.
C7_HeaderAlwaysWritten ==
  (pc = "done" \/ (pc = "error" /\ err = "KeyError"))
  => /\ csv.written
     /\ csv.header = header
     /\ "UN" \notin Range(csv.header)

\* d (in hundredths) is the hundredth nearest to num_frames / sample_rate,
\* the even one on a tie
NearestHundredth(d, num_frames, sample_rate) ==
  LET n == 100 * num_frames
      diff == IF n >= d * sample_rate THEN n - d * sample_rate ELSE d * sample_rate - n
  IN  /\ 2 * diff <= sample_rate
      /\ 2 * diff = sample_rate => d % 2 = 0

\* C8: for a row whose audio file exists, Duration is num_frames /
\* sample_rate rounded to two decimals and ID is "ASV19LA-" followed by the
\* raw ID; the line `LA_0069 LA_D_1047731 - - bonafide` with sample rate
\* 16000 and 32000 frames gives ID "ASV19LA-LA_D_1047731", Label real,
\* Duration 2.0, Proportion valid.
C8_DurationAndID ==
  \A i \in DOMAIN results :
    LET h == probes[i].answer
        raw == CurrentLines[i]
    IN  /\ NearestHundredth(results[i]["Duration"], h.num_frames, h.sample_rate)
        /\ results[i]["ID"] = <<"ASV19LA-">> \o raw[2]
        /\ (raw[2] = ExampleID /\ raw[5] = "bonafide"
              /\ h.sample_rate = 16000 /\ h.num_frames = 32000)
           => /\ results[i]["ID"] = <<"ASV19LA-", "L", "A", "_", "D", "_", "1047731">>
              /\ results[i]["Label"] = "real"
              /\ results[i]["Duration"] = 200
              /\ results[i]["Proportion"] = "valid"

C8_Witness ==
  /\ csv.written
  /\ InputLines[1][2] = ExampleID
  /\ InputLines[1][5] = "bonafide"
  /\ probes[1].answer.sample_rate = 16000
  /\ probes[1].answer.num_frames = 32000
  /\ csv.rows[1]["Duration"] = 200

\* C9: the CSV rows are the lines of the processed protocol files in the
\* order train, dev, eval, each file's lines in their order on disk,
\* whatever the order in which the workers finished the rows.
C9_RowOrder ==
  /\ pc = "loop" =>
       /\ Len(combined_metadata) = Len(LinesUpTo(fileIdx - 1))
       /\ \A k \in DOMAIN combined_metadata :
            /\ combined_metadata[k]["ID"] = ID_PREFIX \o LinesUpTo(fileIdx - 1)[k][2]
            /\ combined_metadata[k]["Speaker"] = LinesUpTo(fileIdx - 1)[k][1]
  /\ csv.written =>
       /\ Len(csv.rows) = Len(InputLines)
       /\ \A k \in DOMAIN csv.rows :
            /\ csv.rows[k]["ID"] = ID_PREFIX \o InputLines[k][2]
            /\ csv.rows[k]["Speaker"] = InputLines[k][1]
            /\ csv.rows[k]["Attack"] = InputLines[k][4]

C9_Witness ==
  /\ csv.written
  /\ lines_in[1].state = "present"
  /\ lines_in[2].state = "absent"
  /\ lines_in[3].state = "present"
  /\ Len(lines_in[1].lines) = 2
  /\ lines_in[1].lines[1] # lines_in[1].lines[2]
  /\ Len(csv.rows) = 2 + Len(lines_in[3].lines)

\* C10: the CSV is written at most once and only after each of the three
\* protocol files has been processed or skipped; a run ended by a fatal
\* error has written no CSV, so no CSV holds only some files' rows.
C10_SingleFinalWrite ==
  /\ writes <= 1
  /\ csv.written <=> writes = 1
  /\ csv.written =>
       /\ pc = "done"
       /\ fileIdx > Len(protocol_files)
       /\ \A f \in AllFiles : lines_in[f].state \in {"absent", "present"}
       /\ Len(csv.rows) = Len(InputLines)
  /\ pc = "error" => ~csv.written

C10_Witness ==
  /\ pc = "error"
  /\ err = "ProbeError"
  /\ fileIdx = 3
  /\ combined_metadata # << >>
  /\ ~csv.written

====
